---- MODULE Spec2Model ----
(***************************************************************************)
(* Template reconciler of dioxus-internals-v2: the identity allocator      *)
(* (arena.rs), the edit log entries (mutation.rs) and VirtualDom::create / *)
(* VirtualDom::diff (lib.rs), modelled as a state machine over a pool of   *)
(* VTemplate instances that a caller creates and diffs.                    *)
(***************************************************************************)
EXTENDS Integers, Sequences, FiniteSets, TLC

\* Number of create/diff calls a caller makes on one VirtualDom.
MaxCalls == 3

\* ------------------------------------------------------------------------
\* arena.rs
\* ------------------------------------------------------------------------

\* ElementId::default(): the value every identity cell starts with.
ElementIdDefault == 1

\* Arena::default(): the counter of a fresh allocator.
ArenaDefault == 1

\* Mutant of next: the counter is returned and not advanced.
next_stuck(c) == [id |-> c, counter |-> c]

\* Arena::next on counter value c: the identity returned and the new counter.
next(c) == [id |-> c, counter |-> c + 1]

\* ------------------------------------------------------------------------
\* mutation.rs: the edit log entries
\* ------------------------------------------------------------------------
SetAttribute(name, value, id) ==
    [op |-> "SetAttribute", name |-> name, value |-> value, id |-> id]

LoadTemplate(name, id) == [op |-> "LoadTemplate", name |-> name, id |-> id]

HydrateText(path, value, id) ==
    [op |-> "HydrateText", path |-> path, value |-> value, id |-> id]

SetText(value, id) == [op |-> "SetText", value |-> value, id |-> id]

AssignId(path, id) == [op |-> "AssignId", path |-> path, id |-> id]

Replace(id) == [op |-> "Replace", id |-> id]

\* ------------------------------------------------------------------------
\* Values: a &str is a pointer to bytes.  Two of the strings below have the
\* same bytes at different addresses, so pointer equality and content
\* equality differ.
\* ------------------------------------------------------------------------
StrTrue == [ptr |-> "x1", bytes |-> "true"]
StrTrueCopy == [ptr |-> "x2", bytes |-> "true"]
StrFalse == [ptr |-> "x3", bytes |-> "false"]

Strs == {StrTrue, StrTrueCopy, StrFalse}

\* std::ptr::eq on two &str
ptr_eq(a, b) == a.ptr = b.ptr

\* PartialEq on two &str: comparison of the bytes
str_eq(a, b) == a.bytes = b.bytes

\* ------------------------------------------------------------------------
\* Templates and instances (the struct literals of the test makes_muts)
\* ------------------------------------------------------------------------
TEMPLATE ==
    [id |-> "123",
     node_pathways |-> << <<0>>, <<1>> >>,
     attr_pathways |-> << <<0>> >>]

TEMPLATE_B ==
    [id |-> "456",
     node_pathways |-> << <<0, 1>> >>,
     attr_pathways |-> << <<0, 0>> >>]

Attribute(value) == [name |-> "hidden", value |-> value]

AttributeLocation(attrs) == [mounted_element |-> ElementIdDefault, attrs |-> attrs]

Text(value) == [kind |-> "Text", value |-> value, id |-> ElementIdDefault]

Component == [kind |-> "Component", name |-> "comp"]

Fragment(children) == [kind |-> "Fragment", children |-> children]

VTemplate(template, dynamic_nodes, dynamic_attrs) ==
    [node_id |-> ElementIdDefault,
     template |-> template,
     dynamic_nodes |-> dynamic_nodes,
     dynamic_attrs |-> dynamic_attrs]

\* ------------------------------------------------------------------------
\* lib.rs: VirtualDom::create
\* A call works on st = [mutations, counter, panicked]: the caller's log,
\* the arena counter, and whether the call has panicked (todo!(), or an
\* index out of bounds).  Once panicked, nothing more is done.
\* ------------------------------------------------------------------------
\* Mutant of push: the entry is put at the front of the log.
push_front(st, m) == [st EXCEPT !.mutations = <<m>> \o @]

push(st, m) == [st EXCEPT !.mutations = Append(@, m)]

panic(st) == [st EXCEPT !.panicked = TRUE]

RECURSIVE create_set_attributes(_, _, _, _)
\* lib.rs 62-68: one SetAttribute per attribute of the slot
create_set_attributes(st, attrs, id, k) ==
    IF k > Len(attrs) THEN st
    ELSE create_set_attributes(
            push(st, SetAttribute(attrs[k].name, attrs[k].value, id)),
            attrs, id, k + 1)

RECURSIVE create_attrs(_, _, _)
\* lib.rs 56-69: the loop over dynamic_attrs, from index idx (1-based here)
create_attrs(st, template, idx) ==
    IF st.panicked \/ idx > Len(template.dynamic_attrs) THEN st
    ELSE LET n == next(st.counter)
             st1 == [st EXCEPT !.counter = n.counter]
         IN  IF idx > Len(template.template.attr_pathways)
             THEN panic(st1)
             ELSE create_attrs(
                    create_set_attributes(
                        push(st1, AssignId(template.template.attr_pathways[idx], n.id)),
                        template.dynamic_attrs[idx].attrs, n.id, 1),
                    template, idx + 1)

\* Mutant of create_text: every text slot is hydrated at the first pathway.
create_text_first_path(st, template, idx, value) ==
    LET n == next(st.counter)
        st1 == [st EXCEPT !.counter = n.counter]
    IN  IF idx > Len(template.template.node_pathways)
        THEN panic(st1)
        ELSE push(st1, HydrateText(template.template.node_pathways[1], value, n.id))

\* Mutant of create_text: a text slot without a pathway is skipped.
create_text_skips(st, template, idx, value) ==
    LET n == next(st.counter)
        st1 == [st EXCEPT !.counter = n.counter]
    IN  IF idx > Len(template.template.node_pathways)
        THEN st1
        ELSE push(st1, HydrateText(template.template.node_pathways[idx], value, n.id))

\* lib.rs 74-78: the Text arm of create's match
create_text(st, template, idx, value) ==
    LET n == next(st.counter)
        st1 == [st EXCEPT !.counter = n.counter]
    IN  IF idx > Len(template.template.node_pathways)
        THEN panic(st1)
        ELSE push(st1, HydrateText(template.template.node_pathways[idx], value, n.id))

RECURSIVE create_nodes(_, _, _)
\* lib.rs 71-81: the loop over dynamic_nodes
create_nodes(st, template, idx) ==
    IF st.panicked \/ idx > Len(template.dynamic_nodes) THEN st
    ELSE LET dyn_node == template.dynamic_nodes[idx]
         IN  CASE dyn_node.kind = "Component" -> panic(st)
               [] dyn_node.kind = "Text" ->
                    create_nodes(create_text(st, template, idx, dyn_node.value),
                                 template, idx + 1)
               [] dyn_node.kind = "Fragment" -> panic(st)

\* Mutant of create: the LoadTemplate is pushed after the slots' entries.
create_load_last(st, template) ==
    LET n == next(st.counter)
        st1 == create_nodes(
                    create_attrs([st EXCEPT !.counter = n.counter], template, 1),
                    template, 1)
    IN  IF st1.panicked THEN st1
        ELSE push(st1, LoadTemplate(template.template.id, n.id))

\* lib.rs 48-82.  No identity cell of the instance is written: the ids are
\* bound to locals only.
create(st, template) ==
    LET n == next(st.counter)
        st1 == push([st EXCEPT !.counter = n.counter],
                    LoadTemplate(template.template.id, n.id))
    IN  create_nodes(create_attrs(st1, template, 1), template, 1)

\* ------------------------------------------------------------------------
\* lib.rs: VirtualDom::diff
\* diff works on st as create does and returns, besides st, the right
\* instance with the identity cells diff has set.
\* ------------------------------------------------------------------------
Min(a, b) == IF a < b THEN a ELSE b

\* Mutant of attr_changed: the pointer comparison alone decides.
attr_changed_ptr_only(left, right) == ~ptr_eq(left.value, right.value)

\* lib.rs 101: pointer short-circuit, then comparison of the bytes
attr_changed(left, right) ==
    ~ptr_eq(left.value, right.value) /\ ~str_eq(left.value, right.value)

\* lib.rs 101-107: one positional pair of attributes of a slot
diff_attr(st, left, right, right_node) ==
    IF attr_changed(left, right)
    THEN push(st, SetAttribute(left.name, left.value, right_node.mounted_element))
    ELSE st

RECURSIVE diff_attr_list(_, _, _, _)
\* lib.rs 99-108: zip of the attributes of one slot
diff_attr_list(st, left_node, right_node, k) ==
    IF k > Min(Len(left_node.attrs), Len(right_node.attrs)) THEN st
    ELSE diff_attr_list(
            diff_attr(st, left_node.attrs[k], right_node.attrs[k], right_node),
            left_node, right_node, k + 1)

RECURSIVE diff_attrs(_, _, _, _)
\* lib.rs 98-109: zip of the attribute slots
diff_attrs(st, left, right, idx) ==
    IF idx > Min(Len(left.dynamic_attrs), Len(right.dynamic_attrs)) THEN st
    ELSE diff_attrs(
            diff_attr_list(st, left.dynamic_attrs[idx], right.dynamic_attrs[idx], 1),
            left, right, idx + 1)

\* lib.rs 124: comparison of the two text values
text_changed(v1, v2) == ~str_eq(v1, v2)

\* lib.rs 122: the identity carried from the left cell into the right cell
carried_id(id1, id2) == id1

\* Mutant of diff_text: the SetText carries the old value.
diff_text_old_value(st, l, r) ==
    LET r2 == [r EXCEPT !.id = carried_id(l.id, r.id)]
    IN  [st |-> IF text_changed(l.value, r.value)
                THEN push(st, SetText(l.value, r2.id))
                ELSE st,
         node |-> r2]

\* Mutant of diff_text: the right cell gets a fresh identity from the
\* allocator instead of the left cell's.
diff_text_fresh_id(st, l, r) ==
    LET n == next(st.counter)
        st1 == [st EXCEPT !.counter = n.counter]
        r2 == [r EXCEPT !.id = n.id]
    IN  [st |-> IF text_changed(l.value, r.value)
                THEN push(st1, SetText(r.value, r2.id))
                ELSE st1,
         node |-> r2]

\* lib.rs 121-130: the Text/Text arm; returns st and the right node
diff_text(st, l, r) ==
    LET r2 == [r EXCEPT !.id = carried_id(l.id, r.id)]
    IN  [st |-> IF text_changed(l.value, r.value)
                THEN push(st, SetText(r.value, r2.id))
                ELSE st,
         node |-> r2]

\* Mutant of diff_replace: the Replace is pushed before the create.
diff_replace_first(st, left, right) ==
    create(push(st, Replace(left.node_id)), right)

\* lib.rs 90-95: the shape guard's fallback
diff_replace(st, left, right) ==
    LET st1 == create(st, right)
    IN  IF st1.panicked THEN st1 ELSE push(st1, Replace(left.node_id))

RECURSIVE diff(_, _, _)
RECURSIVE diff_nodes(_, _, _, _)
RECURSIVE diff_children(_, _, _, _)

RECURSIVE diff_children_rev(_, _, _, _)
\* Mutant of diff_children: the pairs are visited from the last to the first.
diff_children_rev(st, c1, c2, k) ==
    IF st.panicked \/ k > Min(Len(c1), Len(c2)) THEN [st |-> st, children |-> c2]
    ELSE LET j == Min(Len(c1), Len(c2)) - k + 1
             d == diff(st, c1[j], c2[j])
         IN  diff_children_rev(d.st, c1, [c2 EXCEPT ![j] = d.right], k + 1)

\* lib.rs 136-138: zip of the children of two fragments
diff_children(st, c1, c2, k) ==
    IF st.panicked \/ k > Min(Len(c1), Len(c2)) THEN [st |-> st, children |-> c2]
    ELSE LET d == diff(st, c1[k], c2[k])
         IN  diff_children(d.st, c1, [c2 EXCEPT ![k] = d.right], k + 1)

RECURSIVE diff_nodes_skips(_, _, _, _)
\* Mutant of diff_nodes: a pair that is not Text/Text or Fragment/Fragment is
\* skipped instead of reaching todo!().
diff_nodes_skips(st, left, right, idx) ==
    IF st.panicked \/ idx > Min(Len(left.dynamic_nodes), Len(right.dynamic_nodes))
    THEN [st |-> st, right |-> right]
    ELSE LET l == left.dynamic_nodes[idx]
             r == right.dynamic_nodes[idx]
         IN  CASE l.kind = "Text" /\ r.kind = "Text" ->
                    LET d == diff_text(st, l, r)
                    IN  diff_nodes_skips(d.st, left,
                                   [right EXCEPT !.dynamic_nodes[idx] = d.node],
                                   idx + 1)
               [] l.kind = "Fragment" /\ r.kind = "Fragment" ->
                    LET d == diff_children(st, l.children, r.children, 1)
                    IN  diff_nodes_skips(d.st, left,
                                   [right EXCEPT !.dynamic_nodes[idx].children = d.children],
                                   idx + 1)
               [] OTHER -> diff_nodes_skips(st, left, right, idx + 1)

\* lib.rs 111-142: zip of the node slots
diff_nodes(st, left, right, idx) ==
    IF st.panicked \/ idx > Min(Len(left.dynamic_nodes), Len(right.dynamic_nodes))
    THEN [st |-> st, right |-> right]
    ELSE LET l == left.dynamic_nodes[idx]
             r == right.dynamic_nodes[idx]
         IN  CASE l.kind = "Component" /\ r.kind = "Component" ->
                    [st |-> panic(st), right |-> right]
               [] l.kind = "Text" /\ r.kind = "Text" ->
                    LET d == diff_text(st, l, r)
                    IN  diff_nodes(d.st, left,
                                   [right EXCEPT !.dynamic_nodes[idx] = d.node],
                                   idx + 1)
               [] l.kind = "Fragment" /\ r.kind = "Fragment" ->
                    LET d == diff_children(st, l.children, r.children, 1)
                    IN  diff_nodes(d.st, left,
                                   [right EXCEPT !.dynamic_nodes[idx].children = d.children],
                                   idx + 1)
               [] OTHER -> [st |-> panic(st), right |-> right]

\* Mutant of diff: diff takes an identity from the allocator on entry, as
\* create does.
diff_allocates(st, left, right) ==
    LET st0 == [st EXCEPT !.counter = next(st.counter).counter]
    IN  IF left.template.id # right.template.id
        THEN [st |-> diff_replace(st0, left, right), right |-> right]
        ELSE diff_nodes(diff_attrs(st0, left, right, 1), left, right, 1)

\* lib.rs 84-143
diff(st, left, right) ==
    IF left.template.id # right.template.id
    THEN [st |-> diff_replace(st, left, right), right |-> right]
    ELSE diff_nodes(diff_attrs(st, left, right, 1), left, right, 1)

\* ------------------------------------------------------------------------
\* The instances a caller builds (VTemplate literals as in makes_muts):
\* every identity cell starts as ElementId::default().
\* ------------------------------------------------------------------------
TextValues == {StrTrue, StrFalse}

\* Lists of Text slots: up to two slots, and one list longer than either
\* template's node_pathways.
TextLists ==
    {<< >>}
    \cup {<<Text(a)>> : a \in TextValues}
    \cup {<<Text(a), Text(b)>> : a, b \in TextValues}
    \cup {<<Text(StrTrue), Text(StrFalse), Text(StrTrue)>>}

\* Attribute lists of one slot.
AttrLists ==
    {<< >>}
    \cup {<<Attribute(s)>> : s \in Strs}
    \cup {<<Attribute(StrTrue), Attribute(StrFalse)>>,
          <<Attribute(StrFalse), Attribute(StrTrueCopy)>>}

\* Lists of attribute slots: none, one, two, and three (more than either
\* template's attr_pathways).
AttrSlotLists ==
    {<< >>}
    \cup {<<AttributeLocation(a)>> : a \in AttrLists}
    \cup {<<AttributeLocation(<<Attribute(StrTrue)>>),
            AttributeLocation(<<Attribute(s)>>)>> : s \in {StrTrue, StrFalse}}
    \cup {<<AttributeLocation(<<Attribute(StrTrue)>>),
            AttributeLocation(<< >>),
            AttributeLocation(<<Attribute(StrFalse)>>)>>}

OneAttr == <<AttributeLocation(<<Attribute(StrTrue)>>)>>

TwoTexts == <<Text(StrTrue), Text(StrFalse)>>

\* Children of fragments.
Children ==
    {VTemplate(TEMPLATE, <<Text(a)>>, OneAttr) : a \in TextValues}
    \cup {VTemplate(TEMPLATE_B, <<Text(StrTrue)>>, OneAttr)}

\* Node lists with Component and Fragment slots.
OtherNodeLists ==
    {<<Component>>, <<Text(StrTrue), Component>>, <<Fragment(<< >>)>>}
    \cup {<<Text(StrTrue), Fragment(<<c>>)>> : c \in Children}

Instances ==
    {VTemplate(TEMPLATE, n, OneAttr) : n \in TextLists \cup OtherNodeLists}
    \cup {VTemplate(TEMPLATE, TwoTexts, a) : a \in AttrSlotLists}
    \cup {VTemplate(TEMPLATE_B, <<Text(s)>>, a) :
            s \in {StrFalse},
            a \in {<<AttributeLocation(<<Attribute(StrTrue)>>),
                     AttributeLocation(<<Attribute(x)>>)>> : x \in {StrTrue, StrFalse}}}

\* A template with three node slots, for instances that hold a fragment
\* between two text slots.
TEMPLATE_C ==
    [id |-> "789",
     node_pathways |-> << <<0>>, <<1>>, <<2>> >>,
     attr_pathways |-> << <<0>> >>]

\* Children of fragments: one text slot, a child of another template, a
\* child with a Component slot.
Leaf(a) == VTemplate(TEMPLATE, <<Text(a)>>, OneAttr)

LeafB == VTemplate(TEMPLATE_B, <<Text(StrTrue)>>, OneAttr)

LeafComponent == VTemplate(TEMPLATE, <<Component>>, OneAttr)

\* A child that itself holds a fragment: the second nesting level.
Mid(c) == VTemplate(TEMPLATE, <<Fragment(<<c>>)>>, OneAttr)

\* Text, fragment, text.
Parent(x, children, y) ==
    VTemplate(TEMPLATE_C, <<Text(x), Fragment(children), Text(y)>>, OneAttr)

\* Instances with fragments, one and two levels deep, and the instances
\* they are diffed against.
FragmentInstances ==
    {Parent(StrTrue, <<Leaf(StrTrue), Leaf(StrFalse)>>, StrTrue),
     Parent(StrFalse, <<Leaf(StrFalse), Leaf(StrTrue)>>, StrFalse),
     Parent(StrTrue, <<LeafB, Leaf(StrTrue)>>, StrFalse),
     Parent(StrTrue, <<Leaf(StrFalse)>>, StrTrue),
     Parent(StrTrue, <<LeafComponent, Leaf(StrTrue)>>, StrTrue),
     Parent(StrTrue, <<Mid(Leaf(StrTrue))>>, StrTrue),
     Parent(StrFalse, <<Mid(Leaf(StrFalse))>>, StrTrue),
     Parent(StrTrue, <<Mid(LeafComponent)>>, StrTrue),
     Parent(StrTrue, <<Mid(LeafB)>>, StrTrue),
     VTemplate(TEMPLATE_C, <<Text(StrTrue), Component, Text(StrTrue)>>, OneAttr),
     VTemplate(TEMPLATE_C, <<Text(StrTrue), Text(StrFalse), Text(StrTrue)>>, OneAttr),
     VTemplate(TEMPLATE_B, <<Text(StrFalse)>>, OneAttr)}

\* ------------------------------------------------------------------------
\* State
\* ------------------------------------------------------------------------
VARIABLES
    counter,    \* VirtualDom.arena.counter
    mutations,  \* the caller's Vec<Mutation>, passed to every call
    pool,       \* the caller's VTemplate instances, with their identity cells
    panicked,   \* the last call panicked: the thread has unwound
    calls,      \* the calls made so far: [op, left, right]
    before      \* counter, mutations and pool when the last call began

vars == <<counter, mutations, pool, panicked, calls, before>>

PoolIdx == {1, 2}

Init ==
    /\ counter = ArenaDefault
    /\ mutations = << >>
    /\ pool \in [PoolIdx -> Instances]
    /\ panicked = FALSE
    /\ calls = << >>
    /\ before = [counter |-> ArenaDefault, mutations |-> << >>, pool |-> pool]

Start == [mutations |-> mutations, counter |-> counter, panicked |-> FALSE]

Snapshot == [counter |-> counter, mutations |-> mutations, pool |-> pool]

\* dom.create(&mut mutations, &pool[i])
Create(i) ==
    /\ ~panicked
    /\ Len(calls) < MaxCalls
    /\ LET st == create(Start, pool[i])
       IN  /\ counter' = st.counter
           /\ mutations' = st.mutations
           /\ panicked' = st.panicked
    /\ pool' = pool
    /\ calls' = Append(calls, [op |-> "create", left |-> i, right |-> i])
    /\ before' = Snapshot

\* dom.diff(&mut mutations, &pool[i], &pool[j])
Diff(i, j) ==
    /\ ~panicked
    /\ Len(calls) < MaxCalls
    /\ LET d == diff(Start, pool[i], pool[j])
       IN  /\ counter' = d.st.counter
           /\ mutations' = d.st.mutations
           /\ panicked' = d.st.panicked
           /\ pool' = [pool EXCEPT ![j] = d.right]
    /\ calls' = Append(calls, [op |-> "diff", left |-> i, right |-> j])
    /\ before' = Snapshot

Next ==
    \/ \E i \in PoolIdx : Create(i)
    \/ \E i, j \in PoolIdx : Diff(i, j)

Spec == Init /\ [][Next]_vars

\* The same calls on a pool of instances with fragments.
InitFragments ==
    /\ counter = ArenaDefault
    /\ mutations = << >>
    /\ pool \in [PoolIdx -> FragmentInstances]
    /\ panicked = FALSE
    /\ calls = << >>
    /\ before = [counter |-> ArenaDefault, mutations |-> << >>, pool |-> pool]

SpecFragments == InitFragments /\ [][Next]_vars

\* ------------------------------------------------------------------------
\* Vocabulary of the properties
\* ------------------------------------------------------------------------
Done == Len(calls) > 0

LastCall == calls[Len(calls)]

IsCreate == Done /\ LastCall.op = "create"

IsDiff == Done /\ LastCall.op = "diff"

\* The arguments of the last call, as they were when it began.
Old == before.pool[LastCall.left]

New == before.pool[LastCall.right]

\* The right argument of the last call, as the call left it.
NewAfter == pool[LastCall.right]

\* What the last call appended to the log.
Appended == SubSeq(mutations, Len(before.mutations) + 1, Len(mutations))

CreatedEarlier(i) ==
    \E k \in 1..(Len(calls) - 1) : calls[k].op = "create" /\ calls[k].right = i

RECURSIVE Flatten(_)
Flatten(ss) == IF ss = << >> THEN << >> ELSE Head(ss) \o Flatten(Tail(ss))

AllText(inst) ==
    \A k \in DOMAIN inst.dynamic_nodes : inst.dynamic_nodes[k].kind = "Text"

NoFragment(inst) ==
    \A k \in DOMAIN inst.dynamic_nodes : inst.dynamic_nodes[k].kind # "Fragment"

\* Every slot of the instance has a pathway in its template.
Fits(inst) ==
    /\ Len(inst.dynamic_attrs) <= Len(inst.template.attr_pathways)
    /\ Len(inst.dynamic_nodes) <= Len(inst.template.node_pathways)

\* The instance has a slot without a pathway in its template.
Excess(inst) == ~Fits(inst)

ArityMismatch(inst) ==
    \/ Len(inst.dynamic_attrs) # Len(inst.template.attr_pathways)
    \/ Len(inst.dynamic_nodes) # Len(inst.template.node_pathways)

\* The identity cells of an instance without fragments: root, attribute
\* slots, text slots.
Cells(inst) ==
    <<inst.node_id>>
    \o [i \in DOMAIN inst.dynamic_attrs |-> inst.dynamic_attrs[i].mounted_element]
    \o [i \in DOMAIN inst.dynamic_nodes |-> inst.dynamic_nodes[i].id]

CellsUnassigned(inst) ==
    \A k \in DOMAIN Cells(inst) : Cells(inst)[k] = ElementIdDefault

Binding == {"LoadTemplate", "AssignId", "HydrateText"}

IsBinding(m) == m.op \in Binding

\* The identities a log binds, in log order.
BoundIds(log) ==
    LET b == SelectSeq(log, IsBinding) IN [k \in DOMAIN b |-> b[k].id]

\* The sequence the specification gives for Create on an all-Text instance,
\* with c the first identity the allocator hands out.
ExpectedCreate(inst, c) ==
    LET na == Len(inst.dynamic_attrs)
        nn == Len(inst.dynamic_nodes)
        block(i) ==
            <<AssignId(inst.template.attr_pathways[i], c + i)>>
            \o [k \in DOMAIN inst.dynamic_attrs[i].attrs |->
                    SetAttribute(inst.dynamic_attrs[i].attrs[k].name,
                                 inst.dynamic_attrs[i].attrs[k].value, c + i)]
    IN  <<LoadTemplate(inst.template.id, c)>>
        \o Flatten([i \in 1..na |-> block(i)])
        \o [i \in 1..nn |->
                HydrateText(inst.template.node_pathways[i],
                            inst.dynamic_nodes[i].value, c + na + i)]

\* C1: Create on an instance whose node slots are all Text (each slot having
\* a pathway, the identity cells unassigned) returns normally and appends
\* exactly LoadTemplate, then per attribute slot AssignId and its
\* SetAttributes, then per text slot HydrateText, and nothing else.
C1_CreateSequence ==
    (IsCreate /\ AllText(New) /\ Fits(New) /\ CellsUnassigned(New))
        => /\ ~panicked
           /\ Appended = ExpectedCreate(New, before.counter)

C1_Witness ==
    /\ IsCreate /\ AllText(New) /\ Fits(New) /\ ~panicked
    /\ before.counter > ArenaDefault
    /\ Len(New.dynamic_nodes) = 2
    /\ Len(New.dynamic_attrs) = 1
    /\ Len(New.dynamic_attrs[1].attrs) = 2
    /\ Len(Appended) = 6

\* C2: after Create returns, the identity cells of the instance are pairwise
\* distinct and distinct from every identity bound by earlier calls.
C2_CellsDistinctAndFresh ==
    (IsCreate /\ ~panicked)
        => LET cs == Cells(NewAfter)
           IN  /\ \A a, b \in DOMAIN cs : a # b => cs[a] # cs[b]
               /\ \A a \in DOMAIN cs :
                    \A k \in DOMAIN BoundIds(before.mutations) :
                        cs[a] # BoundIds(before.mutations)[k]

SameTemplate == Old.template.id = New.template.id

SameShape(a, b) ==
    /\ Len(a.dynamic_nodes) = Len(b.dynamic_nodes)
    /\ Len(a.dynamic_attrs) = Len(b.dynamic_attrs)
    /\ \A i \in DOMAIN a.dynamic_attrs :
        Len(a.dynamic_attrs[i].attrs) = Len(b.dynamic_attrs[i].attrs)

\* The attribute values of the slots both instances have are equal by content.
AttrsContentEqual(a, b) ==
    \A i \in 1..Min(Len(a.dynamic_attrs), Len(b.dynamic_attrs)) :
        \A k \in 1..Min(Len(a.dynamic_attrs[i].attrs), Len(b.dynamic_attrs[i].attrs)) :
            a.dynamic_attrs[i].attrs[k].value.bytes
                = b.dynamic_attrs[i].attrs[k].value.bytes

\* The text slots whose values differ by content (both instances all Text).
TextDiffs(a, b) ==
    {k \in 1..Min(Len(a.dynamic_nodes), Len(b.dynamic_nodes)) :
        a.dynamic_nodes[k].value.bytes # b.dynamic_nodes[k].value.bytes}

RECURSIVE ContentEqual(_, _)
\* Same template, and at every slot position both instances have: equal
\* attribute values, equal text values, fragments with content-equal children.
ContentEqual(a, b) ==
    /\ a.template.id = b.template.id
    /\ AttrsContentEqual(a, b)
    /\ \A i \in 1..Min(Len(a.dynamic_nodes), Len(b.dynamic_nodes)) :
        LET x == a.dynamic_nodes[i]
            y == b.dynamic_nodes[i]
        IN  /\ x.kind = y.kind
            /\ x.kind = "Text" => x.value.bytes = y.value.bytes
            /\ x.kind = "Fragment" =>
                \A k \in 1..Min(Len(x.children), Len(y.children)) :
                    ContentEqual(x.children[k], y.children[k])

\* C5: Diff of an instance with itself, or with a content-equal instance of
\* the same template, appends no SetAttribute and no SetText.
C5_EqualNoEdits ==
    (IsDiff /\ ContentEqual(Old, New))
        => \A k \in DOMAIN Appended :
            Appended[k].op \notin {"SetAttribute", "SetText"}

C5_Witness ==
    /\ IsDiff /\ ContentEqual(Old, New) /\ ~panicked
    /\ LastCall.left # LastCall.right
    /\ Len(Old.dynamic_attrs) > 0 /\ Len(New.dynamic_attrs) > 0
    /\ Len(Old.dynamic_attrs[1].attrs) > 0 /\ Len(New.dynamic_attrs[1].attrs) > 0
    /\ Old.dynamic_attrs[1].attrs[1].value.ptr # New.dynamic_attrs[1].attrs[1].value.ptr
    /\ Len(Old.dynamic_nodes) = 2 /\ Len(New.dynamic_nodes) = 2

\* C6: the identities the allocator hands out are strictly increasing, one
\* apart, and none is the reserved default identity.
C6_NeverSentinel ==
    LET ids == BoundIds(mutations)
    IN  \A k \in DOMAIN ids :
            /\ ids[k] # ElementIdDefault
            /\ k > 1 => ids[k] = ids[k - 1] + 1

\* The SetAttributes the specification gives for Diff: one per positional
\* pair of unequal values, with the new value and the new slot's identity.
ExpectedAttrEdits(a, b) ==
    Flatten([i \in 1..Min(Len(a.dynamic_attrs), Len(b.dynamic_attrs)) |->
        Flatten([k \in 1..Min(Len(a.dynamic_attrs[i].attrs),
                              Len(b.dynamic_attrs[i].attrs)) |->
            IF a.dynamic_attrs[i].attrs[k].value.bytes
                    # b.dynamic_attrs[i].attrs[k].value.bytes
            THEN <<SetAttribute(b.dynamic_attrs[i].attrs[k].name,
                                b.dynamic_attrs[i].attrs[k].value,
                                b.dynamic_attrs[i].mounted_element)>>
            ELSE << >>])])

IsSetAttribute(m) == m.op = "SetAttribute"

\* C7: Diff of two same-template instances appends, per positional pair of
\* attributes with unequal values, one SetAttribute with the new value and
\* the new slot's mounted-element identity, and none for equal values.
C7_SetsNewValue ==
    (IsDiff /\ SameTemplate /\ NoFragment(Old) /\ NoFragment(New))
        => SelectSeq(Appended, IsSetAttribute) = ExpectedAttrEdits(Old, New)

\* C8: Create writes each identity cell (the cell holds the identity Create
\* bound for it in the log), and Diff never changes a cell that holds an
\* assigned identity.
C8_CellsWrittenOnce ==
    /\ (IsCreate /\ ~panicked /\ AllText(New))
            => Cells(NewAfter) = BoundIds(Appended)
    /\ (IsDiff /\ AllText(New) /\ AllText(NewAfter))
            => \A k \in DOMAIN Cells(New) :
                Cells(New)[k] # ElementIdDefault
                    => Cells(NewAfter)[k] = Cells(New)[k]

\* C9: a call that ends in a panic leaves the log as it was before the call.
C9_FatalLeavesLog == panicked => mutations = before.mutations

\* C10 as stated: a call on an instance whose slot counts differ from its
\* template's pathway counts panics.
C10_MismatchFatal ==
    (\/ IsCreate /\ ArityMismatch(New)
     \/ IsDiff /\ (ArityMismatch(Old) \/ ArityMismatch(New)))
        => panicked

\* The node slots both instances have are Text on both sides.
PairedText(a, b) ==
    \A k \in 1..Min(Len(a.dynamic_nodes), Len(b.dynamic_nodes)) :
        a.dynamic_nodes[k].kind = "Text" /\ b.dynamic_nodes[k].kind = "Text"

\* C10 as amended: Create (called directly or through Diff's fallback)
\* panics when the instance has more slots than its template has pathways;
\* with fewer slots it returns normally and binds only the slots present;
\* a same-template Diff does not panic on a slot-count mismatch.
C10_ExcessFatalOnly ==
    /\ (IsCreate /\ Excess(New)) => panicked
    /\ (IsDiff /\ ~SameTemplate /\ Excess(New)) => panicked
    /\ (IsCreate /\ AllText(New) /\ Fits(New) /\ ArityMismatch(New))
            => /\ ~panicked
               /\ Len(BoundIds(Appended))
                    = 1 + Len(New.dynamic_attrs) + Len(New.dynamic_nodes)
    /\ (IsDiff /\ SameTemplate /\ PairedText(Old, New))
            => ~panicked /\ counter = before.counter

C10_Witness ==
    /\ IsDiff /\ SameTemplate /\ PairedText(Old, New) /\ ~panicked
    /\ ArityMismatch(New)
    /\ Len(Old.dynamic_attrs) # Len(New.dynamic_attrs)
    /\ Len(Old.dynamic_nodes) # Len(New.dynamic_nodes)
    /\ Len(Appended) > 0

\* Create cannot handle the instance: it has a Component or Fragment slot.
CreateUnsupported(inst) ==
    \E k \in DOMAIN inst.dynamic_nodes :
        inst.dynamic_nodes[k].kind \in {"Component", "Fragment"}

RECURSIVE UnsupportedPair(_, _)
\* Two instances of the same template that hold, at a slot both have, a
\* Component/Component pair or a pair of different variants, here or in
\* same-template children of a Fragment/Fragment pair, at any depth.
UnsupportedPair(a, b) ==
    /\ a.template.id = b.template.id
    /\ \E i \in 1..Min(Len(a.dynamic_nodes), Len(b.dynamic_nodes)) :
        LET x == a.dynamic_nodes[i]
            y == b.dynamic_nodes[i]
        IN  \/ x.kind # y.kind
            \/ x.kind = "Component"
            \/ /\ x.kind = "Fragment"
               /\ \E k \in 1..Min(Len(x.children), Len(y.children)) :
                    UnsupportedPair(x.children[k], y.children[k])

\* C11: Create on an instance with a Component or Fragment slot panics, and
\* Diff of two same-template instances panics whenever a slot pair is
\* Component/Component or of different variants, at any fragment depth.
C11_UnsupportedFatal ==
    /\ (IsCreate /\ CreateUnsupported(New)) => panicked
    /\ (IsDiff /\ UnsupportedPair(Old, New)) => panicked

\* The unsupported pair lies two fragments deep: the top-level pairs and the
\* first-level children are all supported.
C11_Witness ==
    /\ IsDiff /\ UnsupportedPair(Old, New) /\ panicked
    /\ Len(Old.dynamic_nodes) = 3 /\ Len(New.dynamic_nodes) = 3
    /\ \A i \in 1..3 : Old.dynamic_nodes[i].kind = New.dynamic_nodes[i].kind
    /\ Old.dynamic_nodes[2].kind = "Fragment"
    /\ Old.dynamic_nodes[2].children[1].dynamic_nodes[1].kind = "Fragment"
    /\ New.dynamic_nodes[2].children[1].dynamic_nodes[1].kind = "Fragment"
    /\ Old.dynamic_nodes[2].children[1].dynamic_nodes[1].children[1].dynamic_nodes[1].kind
            = "Text"
    /\ New.dynamic_nodes[2].children[1].dynamic_nodes[1].children[1].dynamic_nodes[1].kind
            = "Component"

Templates == {TEMPLATE, TEMPLATE_B, TEMPLATE_C}

TemplateNamed(name) == CHOOSE t \in Templates : t.id = name

SeqRange(q) == {q[i] : i \in DOMAIN q}

\* C12: every AssignId and HydrateText of the log has a LoadTemplate before
\* it, and the nearest one comes from the same create call (only entries of
\* that create lie between, the ids run on from the LoadTemplate's) and
\* names the template whose pathway table holds the entry's path.
C12_LoadTemplateFirst ==
    \A k \in DOMAIN mutations :
        mutations[k].op \in {"AssignId", "HydrateText"} =>
            \E j \in 1..(k - 1) :
                /\ mutations[j].op = "LoadTemplate"
                /\ \A m \in (j + 1)..(k - 1) :
                    mutations[m].op \in {"AssignId", "SetAttribute", "HydrateText"}
                /\ mutations[k].id
                    = mutations[j].id + Len(BoundIds(SubSeq(mutations, j + 1, k)))
                /\ LET t == TemplateNamed(mutations[j].name)
                   IN  mutations[k].path \in
                        SeqRange(IF mutations[k].op = "AssignId"
                                 THEN t.attr_pathways ELSE t.node_pathways)

\* A second create, of the other template, has hydrated its text slot.
C12_Witness ==
    \E j, k \in DOMAIN mutations :
        /\ 1 < j /\ j < k
        /\ mutations[1].op = "LoadTemplate" /\ mutations[1].name = TEMPLATE.id
        /\ mutations[j].op = "LoadTemplate" /\ mutations[j].name = TEMPLATE_B.id
        /\ mutations[k].op = "HydrateText"
        /\ mutations[k].path = TEMPLATE_B.node_pathways[1]

\* C13: the log is append-only: a call leaves the entries that were in the
\* log where they were and only adds entries after them.
C13_AppendOnly ==
    [][/\ Len(mutations') >= Len(mutations)
       /\ SubSeq(mutations', 1, Len(mutations)) = mutations]_vars

\* A diff has added entries to a log that already held some.
C13_Witness ==
    /\ IsDiff /\ ~panicked
    /\ Len(before.mutations) > 0
    /\ Len(mutations) > Len(before.mutations)

IsSetText(m) == m.op = "SetText"

\* The SetTexts the specification gives for the Text/Text pairs of two
\* instances: one per pair of unequal values, in slot order, with the new
\* value and the identity old's cell holds.
ExpectedTextEdits(a, b) ==
    Flatten([i \in 1..Min(Len(a.dynamic_nodes), Len(b.dynamic_nodes)) |->
        IF a.dynamic_nodes[i].value.bytes # b.dynamic_nodes[i].value.bytes
        THEN <<SetText(b.dynamic_nodes[i].value, a.dynamic_nodes[i].id)>>
        ELSE << >>])

\* C14: after a same-template Diff returns, at every slot that is Text on
\* both sides new's cell equals old's cell, whether or not the values
\* differ, and the SetTexts carry that identity and new's value.
C14_TextIdentityCarried ==
    (IsDiff /\ SameTemplate /\ ~panicked)
        => /\ \A i \in 1..Min(Len(Old.dynamic_nodes), Len(New.dynamic_nodes)) :
                (Old.dynamic_nodes[i].kind = "Text" /\ New.dynamic_nodes[i].kind = "Text")
                    => NewAfter.dynamic_nodes[i].id = Old.dynamic_nodes[i].id
           /\ PairedText(Old, New)
                => SelectSeq(Appended, IsSetText) = ExpectedTextEdits(Old, New)

\* After creates have advanced the allocator, a diff of two instances with
\* two text slots each found the first changed and the second equal.
C14_Witness ==
    /\ IsDiff /\ SameTemplate /\ ~panicked
    /\ LastCall.left # LastCall.right
    /\ CreatedEarlier(LastCall.left)
    /\ before.counter > ArenaDefault
    /\ PairedText(Old, New)
    /\ Len(Old.dynamic_nodes) = 2 /\ Len(New.dynamic_nodes) = 2
    /\ TextDiffs(Old, New) = {1}
    /\ NewAfter.dynamic_nodes[2].id = Old.dynamic_nodes[2].id

RECURSIVE SchemasMatch(_, _)
\* The two instances have the same template id, and so have the children
\* that Diff pairs in their Fragment/Fragment slots, recursively.
SchemasMatch(a, b) ==
    /\ a.template.id = b.template.id
    /\ \A i \in 1..Min(Len(a.dynamic_nodes), Len(b.dynamic_nodes)) :
        LET x == a.dynamic_nodes[i]
            y == b.dynamic_nodes[i]
        IN  (x.kind = "Fragment" /\ y.kind = "Fragment")
                => \A k \in 1..Min(Len(x.children), Len(y.children)) :
                        SchemasMatch(x.children[k], y.children[k])

IsLoadTemplate(m) == m.op = "LoadTemplate"

\* C15: Diff leaves the allocator counter unchanged when the template ids
\* match at the top and at every pair of fragment children it compares; the
\* counter moves only where a create ran (a LoadTemplate was appended).
C15_DiffKeepsCounter ==
    /\ (IsDiff /\ SchemasMatch(Old, New)) => counter = before.counter
    /\ IsDiff => counter >= before.counter
    /\ (IsDiff /\ counter # before.counter)
            => SelectSeq(Appended, IsLoadTemplate) # << >>

\* A diff of two instances with two fragment children each, all of matching
\* templates, that emitted edits for the slots and the children.
C15_Witness ==
    /\ IsDiff /\ SchemasMatch(Old, New) /\ ~panicked
    /\ Len(Old.dynamic_nodes) = 3 /\ Len(New.dynamic_nodes) = 3
    /\ Old.dynamic_nodes[2].kind = "Fragment" /\ New.dynamic_nodes[2].kind = "Fragment"
    /\ Len(Old.dynamic_nodes[2].children) = 2
    /\ Len(New.dynamic_nodes[2].children) = 2
    /\ Len(Appended) = 4
    /\ counter = before.counter

\* What Diff(x, y) emits on its own when the allocator stands at c.
DiffOutput(x, y, c) ==
    diff([mutations |-> << >>, counter |-> c, panicked |-> FALSE], x, y).st.mutations

RECURSIVE ChildOutputs(_, _, _, _, _)
\* acc followed by the outputs of Diff(c1[k], c2[k]), Diff(c1[k+1], c2[k+1]),
\* and so on; c0 is the allocator counter where acc began, and every binding
\* mutation in acc took one identity from it.
ChildOutputs(c1, c2, k, acc, c0) ==
    IF k > Min(Len(c1), Len(c2)) THEN acc
    ELSE ChildOutputs(c1, c2, k + 1,
                      acc \o DiffOutput(c1[k], c2[k], c0 + Len(BoundIds(acc))),
                      c0)

RECURSIVE SlotOutputs(_, _, _, _, _)
\* acc followed by the output of slot i, slot i+1, and so on, of two
\* instances whose common slots are Text/Text or Fragment/Fragment.
SlotOutputs(a, b, i, acc, c0) ==
    IF i > Min(Len(a.dynamic_nodes), Len(b.dynamic_nodes)) THEN acc
    ELSE LET x == a.dynamic_nodes[i]
             y == b.dynamic_nodes[i]
         IN  IF x.kind = "Fragment"
             THEN SlotOutputs(a, b, i + 1,
                              ChildOutputs(x.children, y.children, 1, acc, c0), c0)
             ELSE SlotOutputs(a, b, i + 1,
                              acc \o (IF x.value.bytes # y.value.bytes
                                      THEN <<SetText(y.value, x.id)>>
                                      ELSE << >>),
                              c0)

TextOrFragmentPairs(a, b) ==
    \A i \in 1..Min(Len(a.dynamic_nodes), Len(b.dynamic_nodes)) :
        \/ a.dynamic_nodes[i].kind = "Text" /\ b.dynamic_nodes[i].kind = "Text"
        \/ a.dynamic_nodes[i].kind = "Fragment" /\ b.dynamic_nodes[i].kind = "Fragment"

HasFragmentPair(a, b) ==
    \E i \in 1..Min(Len(a.dynamic_nodes), Len(b.dynamic_nodes)) :
        a.dynamic_nodes[i].kind = "Fragment" /\ b.dynamic_nodes[i].kind = "Fragment"

\* C16: a same-template Diff that returns appends its attribute edits (one
\* per changed attribute) and then the slots' outputs in slot order; the
\* output of a Fragment/Fragment slot is the outputs of Diff(c1[k], c2[k])
\* in increasing k, between the mutations of the earlier slots and those of
\* the later ones.
C16_FragmentChildrenInOrder ==
    (IsDiff /\ SameTemplate /\ ~panicked /\ TextOrFragmentPairs(Old, New))
        => LET n == Len(ExpectedAttrEdits(Old, New))
           IN  /\ Len(Appended) >= n
               /\ \A k \in 1..n : IsSetAttribute(Appended[k])
               /\ Appended = SlotOutputs(Old, New, 1, SubSeq(Appended, 1, n),
                                         before.counter)

\* Text, a fragment of two children, text, every one of them changed: the
\* log holds slot 1's edit, the first child's, the second child's, slot 3's.
C16_Witness ==
    /\ IsDiff /\ ~panicked
    /\ Old = Parent(StrTrue, <<Leaf(StrTrue), Leaf(StrFalse)>>, StrTrue)
    /\ New = Parent(StrFalse, <<Leaf(StrFalse), Leaf(StrTrue)>>, StrFalse)
    /\ Appended = <<SetText(StrFalse, Old.dynamic_nodes[1].id),
                    SetText(StrFalse, Old.dynamic_nodes[2].children[1].dynamic_nodes[1].id),
                    SetText(StrTrue, Old.dynamic_nodes[2].children[2].dynamic_nodes[1].id),
                    SetText(StrFalse, Old.dynamic_nodes[3].id)>>

\* Some entry of the log before position p is a binding of kind op with
\* identity id.
BoundBefore(p, op, id) ==
    \E j \in 1..(p - 1) : mutations[j].op = op /\ mutations[j].id = id

\* Position p of the log holds an edit that the last Diff emitted itself: a
\* Replace, a SetText, or a SetAttribute that no create of this call
\* precedes.
DiffEmitted(p) ==
    /\ p > Len(before.mutations)
    /\ \/ mutations[p].op \in {"Replace", "SetText"}
       \/ /\ mutations[p].op = "SetAttribute"
          /\ \A j \in (Len(before.mutations) + 1)..(p - 1) :
                mutations[j].op # "LoadTemplate"

\* C17: when Diff runs on an old instance that was created earlier, every
\* Replace it emits carries the identity of an earlier LoadTemplate, every
\* SetText that of an earlier HydrateText, and every SetAttribute of its own
\* that of an earlier AssignId.
C17_EditsAddressBoundIds ==
    (IsDiff /\ CreatedEarlier(LastCall.left))
        => \A p \in DOMAIN mutations :
            DiffEmitted(p) =>
                BoundBefore(p,
                            CASE mutations[p].op = "Replace" -> "LoadTemplate"
                              [] mutations[p].op = "SetText" -> "HydrateText"
                              [] OTHER -> "AssignId",
                            mutations[p].id)

\* C18: over the whole log the identities carried by LoadTemplate, AssignId
\* and HydrateText are strictly increasing in log order, hence pairwise
\* distinct, and all below the allocator counter, so none is bound again.
C18_BoundIdsIncreasing ==
    LET ids == BoundIds(mutations)
    IN  /\ \A j, k \in DOMAIN ids : j < k => ids[j] < ids[k]
        /\ \A k \in DOMAIN ids : ArenaDefault <= ids[k] /\ ids[k] < counter

\* A create, then a diff that fell back to create, then another create: three
\* LoadTemplates in one log, with slot bindings between them.
C18_Witness ==
    /\ Len(calls) = 3 /\ ~panicked
    /\ calls[1].op = "create" /\ calls[2].op = "diff" /\ calls[3].op = "create"
    /\ Len(SelectSeq(mutations, IsLoadTemplate)) = 3
    /\ Len(BoundIds(mutations)) >= 7
    /\ \E p \in DOMAIN mutations : mutations[p].op = "Replace"

====
